---- MODULE Spec2Model ----
(***************************************************************************)
(* Model of polygon_operations.c: the geometric kernel (point in polygon,  *)
(* distance to segment, segment intersection, area, perimeter, bounding    *)
(* box, polygon intersection) and the point-buffer helpers.                *)
(*                                                                         *)
(* A C double is modelled as a binary floating-point number with a         *)
(* significand of Precision bits and an unbounded exponent.  Every         *)
(* arithmetic operation computes the exact rational result and rounds it   *)
(* to the nearest representable value, ties to even, as IEEE-754 does.     *)
(* Each value carries the inexact status IEEE-754 attaches to the          *)
(* operations that produced it (field x: TRUE when none of them rounded).  *)
(***************************************************************************)
EXTENDS Integers, Sequences, FiniteSets, TLC

VARIABLES mem, blocks, shadow, pc, call

vars == <<mem, blocks, shadow, pc, call>>

(***************************************************************************)
(* Bounds                                                                  *)
(***************************************************************************)
Precision == 4
SampleDiv == 8

(***************************************************************************)
(* Rational numbers <<n, d>> in lowest terms, d > 0.                       *)
(***************************************************************************)
Abs(i) == IF i < 0 THEN -i ELSE i

RECURSIVE Gcd(_, _)
Gcd(a, b) == IF b = 0 THEN a ELSE Gcd(b, a % b)

Rat(n, d) ==
    LET g == Gcd(Abs(n), Abs(d))
    IN  IF d < 0 THEN <<(-n) \div g, (-d) \div g>> ELSE <<n \div g, d \div g>>

QInt(i) == <<i, 1>>
QAdd(a, b) == Rat(a[1] * b[2] + b[1] * a[2], a[2] * b[2])
QSub(a, b) == Rat(a[1] * b[2] - b[1] * a[2], a[2] * b[2])
QMul(a, b) == Rat(a[1] * b[1], a[2] * b[2])
QDiv(a, b) == Rat(a[1] * b[2], a[2] * b[1])
QLt(a, b) == a[1] * b[2] < b[1] * a[2]
QLe(a, b) == a[1] * b[2] <= b[1] * a[2]
QAbs(a) == <<Abs(a[1]), a[2]>>

(***************************************************************************)
(* Rounding to Precision significant bits, nearest, ties to even.          *)
(***************************************************************************)
TwoP == 2 ^ Precision
HalfP == 2 ^ (Precision - 1)

RECURSIVE RoundPos(_, _)
RoundPos(n, d) ==
    IF n >= TwoP * d
    THEN LET r == RoundPos(n, 2 * d) IN Rat(2 * r[1], r[2])
    ELSE IF n < HalfP * d
    THEN LET r == RoundPos(2 * n, d) IN Rat(r[1], 2 * r[2])
    ELSE LET m == n \div d
             rem == n % d
             up == 2 * rem > d \/ (2 * rem = d /\ m % 2 = 1)
         IN  <<IF up THEN m + 1 ELSE m, 1>>

fl(q) ==
    IF q[1] = 0 THEN q
    ELSE LET r == RoundPos(Abs(q[1]), q[2])
         IN  IF q[1] < 0 THEN <<-r[1], r[2]>> ELSE r

\* The correctly rounded square root of the rational n/d > 0.
RECURSIVE SqrtPos(_, _)
SqrtPos(n, d) ==
    IF n >= TwoP * TwoP * d
    THEN LET r == SqrtPos(n, 4 * d) IN Rat(2 * r[1], r[2])
    ELSE IF n < HalfP * HalfP * d
    THEN LET r == SqrtPos(4 * n, d) IN Rat(r[1], 2 * r[2])
    ELSE LET m == CHOOSE k \in HalfP..(TwoP - 1) :
                      k * k * d <= n /\ (k + 1) * (k + 1) * d > n
             c == 4 * n - (2 * m + 1) * (2 * m + 1) * d
             up == c > 0 \/ (c = 0 /\ m % 2 = 1)
         IN  <<IF up THEN m + 1 ELSE m, 1>>

(***************************************************************************)
(* double: a value v with its inexact status x.                            *)
(***************************************************************************)
D(i) == [v |-> QInt(i), x |-> TRUE]
DQ(n, d) == [v |-> Rat(n, d), x |-> TRUE]

FOp(q, a, b) == LET r == fl(q) IN [v |-> r, x |-> a.x /\ b.x /\ r = q]

fadd(a, b) == FOp(QAdd(a.v, b.v), a, b)
fsub(a, b) == FOp(QSub(a.v, b.v), a, b)
fmul(a, b) == FOp(QMul(a.v, b.v), a, b)
fdiv(a, b) == FOp(QDiv(a.v, b.v), a, b)
flt(a, b) == QLt(a.v, b.v)
fle(a, b) == QLe(a.v, b.v)
feq(a, b) == a.v = b.v
fmin(a, b) == IF flt(b, a) THEN b ELSE a
fmax(a, b) == IF flt(a, b) THEN b ELSE a
fabs(a) == [v |-> QAbs(a.v), x |-> a.x]
pow2(a) == fmul(a, a)
sqrt(a) ==
    IF a.v[1] = 0 THEN a
    ELSE LET r == SqrtPos(a.v[1], a.v[2])
         IN  [v |-> r, x |-> a.x /\ QMul(r, r) = a.v]

Zero == D(0)
One == D(1)

(***************************************************************************)
(* calculate_intersection: the output slots ix, iy keep what they held     *)
(* (Unset) unless the function writes them.                                *)
(***************************************************************************)
Unset == "unset"

\* Variant: the numerator of ix has its two products exchanged.
calculate_intersection_swapped(p1x, p1y, p2x, p2y, p3x, p3y, p4x, p4y) ==
    LET a1 == fsub(p2y, p1y)
        b1 == fsub(p1x, p2x)
        c1 == fadd(fmul(a1, p1x), fmul(b1, p1y))
        a2 == fsub(p4y, p3y)
        b2 == fsub(p3x, p4x)
        c2 == fadd(fmul(a2, p3x), fmul(b2, p3y))
        determinant == fsub(fmul(a1, b2), fmul(a2, b1))
        ix == fdiv(fsub(fmul(b1, c2), fmul(b2, c1)), determinant)
        iy == fdiv(fsub(fmul(a1, c2), fmul(a2, c1)), determinant)
        onSegment1 == /\ fle(fmin(p1x, p2x), ix) /\ fle(ix, fmax(p1x, p2x))
                      /\ fle(fmin(p1y, p2y), iy) /\ fle(iy, fmax(p1y, p2y))
        onSegment2 == /\ fle(fmin(p3x, p4x), ix) /\ fle(ix, fmax(p3x, p4x))
                      /\ fle(fmin(p3y, p4y), iy) /\ fle(iy, fmax(p3y, p4y))
    IN  IF feq(determinant, Zero)
        THEN [ret |-> 0, ix |-> Unset, iy |-> Unset, det |-> determinant]
        ELSE [ret |-> IF onSegment1 /\ onSegment2 THEN 1 ELSE 0,
              ix |-> ix, iy |-> iy, det |-> determinant]

\* Variant: a zero determinant is reported as an intersection.
calculate_intersection_parallel_hit(p1x, p1y, p2x, p2y, p3x, p3y, p4x, p4y) ==
    LET a1 == fsub(p2y, p1y)
        b1 == fsub(p1x, p2x)
        c1 == fadd(fmul(a1, p1x), fmul(b1, p1y))
        a2 == fsub(p4y, p3y)
        b2 == fsub(p3x, p4x)
        c2 == fadd(fmul(a2, p3x), fmul(b2, p3y))
        determinant == fsub(fmul(a1, b2), fmul(a2, b1))
        ix == fdiv(fsub(fmul(b2, c1), fmul(b1, c2)), determinant)
        iy == fdiv(fsub(fmul(a1, c2), fmul(a2, c1)), determinant)
        onSegment1 == /\ fle(fmin(p1x, p2x), ix) /\ fle(ix, fmax(p1x, p2x))
                      /\ fle(fmin(p1y, p2y), iy) /\ fle(iy, fmax(p1y, p2y))
        onSegment2 == /\ fle(fmin(p3x, p4x), ix) /\ fle(ix, fmax(p3x, p4x))
                      /\ fle(fmin(p3y, p4y), iy) /\ fle(iy, fmax(p3y, p4y))
    IN  IF feq(determinant, Zero)
        THEN [ret |-> 1, ix |-> Unset, iy |-> Unset, det |-> determinant]
        ELSE [ret |-> IF onSegment1 /\ onSegment2 THEN 1 ELSE 0,
              ix |-> ix, iy |-> iy, det |-> determinant]

\* Variant: the range test excludes the segments' end points.
calculate_intersection_strict(p1x, p1y, p2x, p2y, p3x, p3y, p4x, p4y) ==
    LET a1 == fsub(p2y, p1y)
        b1 == fsub(p1x, p2x)
        c1 == fadd(fmul(a1, p1x), fmul(b1, p1y))
        a2 == fsub(p4y, p3y)
        b2 == fsub(p3x, p4x)
        c2 == fadd(fmul(a2, p3x), fmul(b2, p3y))
        determinant == fsub(fmul(a1, b2), fmul(a2, b1))
        ix == fdiv(fsub(fmul(b2, c1), fmul(b1, c2)), determinant)
        iy == fdiv(fsub(fmul(a1, c2), fmul(a2, c1)), determinant)
        onSegment1 == /\ flt(fmin(p1x, p2x), ix) /\ flt(ix, fmax(p1x, p2x))
                      /\ flt(fmin(p1y, p2y), iy) /\ flt(iy, fmax(p1y, p2y))
        onSegment2 == /\ flt(fmin(p3x, p4x), ix) /\ flt(ix, fmax(p3x, p4x))
                      /\ flt(fmin(p3y, p4y), iy) /\ flt(iy, fmax(p3y, p4y))
    IN  IF feq(determinant, Zero)
        THEN [ret |-> 0, ix |-> Unset, iy |-> Unset, det |-> determinant]
        ELSE [ret |-> IF onSegment1 /\ onSegment2 THEN 1 ELSE 0,
              ix |-> ix, iy |-> iy, det |-> determinant]

calculate_intersection(p1x, p1y, p2x, p2y, p3x, p3y, p4x, p4y) ==
    LET a1 == fsub(p2y, p1y)
        b1 == fsub(p1x, p2x)
        c1 == fadd(fmul(a1, p1x), fmul(b1, p1y))
        a2 == fsub(p4y, p3y)
        b2 == fsub(p3x, p4x)
        c2 == fadd(fmul(a2, p3x), fmul(b2, p3y))
        determinant == fsub(fmul(a1, b2), fmul(a2, b1))
        ix == fdiv(fsub(fmul(b2, c1), fmul(b1, c2)), determinant)
        iy == fdiv(fsub(fmul(a1, c2), fmul(a2, c1)), determinant)
        onSegment1 == /\ fle(fmin(p1x, p2x), ix) /\ fle(ix, fmax(p1x, p2x))
                      /\ fle(fmin(p1y, p2y), iy) /\ fle(iy, fmax(p1y, p2y))
        onSegment2 == /\ fle(fmin(p3x, p4x), ix) /\ fle(ix, fmax(p3x, p4x))
                      /\ fle(fmin(p3y, p4y), iy) /\ fle(iy, fmax(p3y, p4y))
    IN  IF feq(determinant, Zero)
        THEN [ret |-> 0, ix |-> Unset, iy |-> Unset, det |-> determinant]
        ELSE [ret |-> IF onSegment1 /\ onSegment2 THEN 1 ELSE 0,
              ix |-> ix, iy |-> iy, det |-> determinant]

(***************************************************************************)
(* distance_to_segment                                                     *)
(***************************************************************************)
\* Variant: beyond W the distance to V is returned.
distance_to_segment_near_end(px, py, vx, vy, wx, wy) ==
    LET l2 == fadd(pow2(fsub(vx, wx)), pow2(fsub(vy, wy)))
        toV == sqrt(fadd(pow2(fsub(px, vx)), pow2(fsub(py, vy))))
        t == fdiv(fadd(fmul(fsub(px, vx), fsub(wx, vx)),
                       fmul(fsub(py, vy), fsub(wy, vy))), l2)
        projx == fadd(vx, fmul(t, fsub(wx, vx)))
        projy == fadd(vy, fmul(t, fsub(wy, vy)))
        toProj == sqrt(fadd(pow2(fsub(px, projx)), pow2(fsub(py, projy))))
    IN  IF feq(l2, Zero)
        THEN [ret |-> toV, branch |-> "point", divided |-> FALSE,
              x |-> l2.x /\ toV.x]
        ELSE IF flt(t, Zero)
        THEN [ret |-> toV, branch |-> "v", divided |-> TRUE,
              x |-> l2.x /\ t.x /\ toV.x]
        ELSE IF flt(One, t)
        THEN [ret |-> toV, branch |-> "w", divided |-> TRUE,
              x |-> l2.x /\ t.x /\ toV.x]
        ELSE [ret |-> toProj, branch |-> "proj", divided |-> TRUE,
              x |-> l2.x /\ t.x /\ toProj.x]

distance_to_segment(px, py, vx, vy, wx, wy) ==
    LET l2 == fadd(pow2(fsub(vx, wx)), pow2(fsub(vy, wy)))
        toV == sqrt(fadd(pow2(fsub(px, vx)), pow2(fsub(py, vy))))
        toW == sqrt(fadd(pow2(fsub(px, wx)), pow2(fsub(py, wy))))
        t == fdiv(fadd(fmul(fsub(px, vx), fsub(wx, vx)),
                       fmul(fsub(py, vy), fsub(wy, vy))), l2)
        projx == fadd(vx, fmul(t, fsub(wx, vx)))
        projy == fadd(vy, fmul(t, fsub(wy, vy)))
        toProj == sqrt(fadd(pow2(fsub(px, projx)), pow2(fsub(py, projy))))
    IN  IF feq(l2, Zero)
        THEN [ret |-> toV, branch |-> "point", divided |-> FALSE,
              x |-> l2.x /\ toV.x]
        ELSE IF flt(t, Zero)
        THEN [ret |-> toV, branch |-> "v", divided |-> TRUE,
              x |-> l2.x /\ t.x /\ toV.x]
        ELSE IF flt(One, t)
        THEN [ret |-> toW, branch |-> "w", divided |-> TRUE,
              x |-> l2.x /\ t.x /\ toW.x]
        ELSE [ret |-> toProj, branch |-> "proj", divided |-> TRUE,
              x |-> l2.x /\ t.x /\ toProj.x]

(***************************************************************************)
(* Point: a pair of doubles.  A polygon is passed as (points, length);     *)
(* points is a sequence, C index i is element i + 1.                       *)
(***************************************************************************)
Pt(px, py) == [x |-> px, y |-> py]
P(i, j) == Pt(D(i), D(j))

(***************************************************************************)
(* is_point_in_polygon.  The result carries, besides the returned bool,    *)
(* the set divs of loop indices at which the quotient was evaluated and    *)
(* the inexact status x of the abscissas that were computed.               *)
(***************************************************************************)
RECURSIVE pip_loop(_, _, _, _, _, _, _)
pip_loop(x, y, points, length, i, j, acc) ==
    IF ~(i < length) THEN acc
    ELSE LET xi == points[i + 1].x
             yi == points[i + 1].y
             xj == points[j + 1].x
             yj == points[j + 1].y
             straddle == flt(y, yi) # flt(y, yj)
             cross == fadd(fdiv(fmul(fsub(xj, xi), fsub(y, yi)), fsub(yj, yi)), xi)
             intersect == straddle /\ flt(x, cross)
         IN  pip_loop(x, y, points, length, i + 1, i,
                      [ret |-> IF intersect THEN ~acc.ret ELSE acc.ret,
                       divs |-> IF straddle THEN acc.divs \cup {i} ELSE acc.divs,
                       x |-> IF straddle THEN acc.x /\ cross.x ELSE acc.x])

\* Variant: j is never advanced and stays length - 1.
RECURSIVE pip_loop_stale_j(_, _, _, _, _, _, _)
pip_loop_stale_j(x, y, points, length, i, j, acc) ==
    IF ~(i < length) THEN acc
    ELSE LET xi == points[i + 1].x
             yi == points[i + 1].y
             xj == points[j + 1].x
             yj == points[j + 1].y
             straddle == flt(y, yi) # flt(y, yj)
             cross == fadd(fdiv(fmul(fsub(xj, xi), fsub(y, yi)), fsub(yj, yi)), xi)
             intersect == straddle /\ flt(x, cross)
         IN  pip_loop_stale_j(x, y, points, length, i + 1, j,
                      [ret |-> IF intersect THEN ~acc.ret ELSE acc.ret,
                       divs |-> IF straddle THEN acc.divs \cup {i} ELSE acc.divs,
                       x |-> IF straddle THEN acc.x /\ cross.x ELSE acc.x])

is_point_in_polygon_stale_j(x, y, points, length) ==
    pip_loop_stale_j(x, y, points, length, 0, length - 1,
                     [ret |-> FALSE, divs |-> {}, x |-> TRUE])

\* Variant: the abscissa is offset from xj instead of xi.
RECURSIVE pip_loop_from_xj(_, _, _, _, _, _, _)
pip_loop_from_xj(x, y, points, length, i, j, acc) ==
    IF ~(i < length) THEN acc
    ELSE LET xi == points[i + 1].x
             yi == points[i + 1].y
             xj == points[j + 1].x
             yj == points[j + 1].y
             straddle == flt(y, yi) # flt(y, yj)
             cross == fadd(fdiv(fmul(fsub(xj, xi), fsub(y, yi)), fsub(yj, yi)), xj)
             intersect == straddle /\ flt(x, cross)
         IN  pip_loop_from_xj(x, y, points, length, i + 1, i,
                      [ret |-> IF intersect THEN ~acc.ret ELSE acc.ret,
                       divs |-> IF straddle THEN acc.divs \cup {i} ELSE acc.divs,
                       x |-> IF straddle THEN acc.x /\ cross.x ELSE acc.x])

is_point_in_polygon_from_xj(x, y, points, length) ==
    pip_loop_from_xj(x, y, points, length, 0, length - 1,
                     [ret |-> FALSE, divs |-> {}, x |-> TRUE])

\* Variant: inside starts out true.
is_point_in_polygon_from_true(x, y, points, length) ==
    pip_loop(x, y, points, length, 0, length - 1,
             [ret |-> TRUE, divs |-> {}, x |-> TRUE])

is_point_in_polygon(x, y, points, length) ==
    pip_loop(x, y, points, length, 0, length - 1,
             [ret |-> FALSE, divs |-> {}, x |-> TRUE])

(***************************************************************************)
(* calculate_polygon_area                                                  *)
(***************************************************************************)
RECURSIVE area_loop(_, _, _, _)
area_loop(points, length, i, area) ==
    IF ~(i < length) THEN area
    ELSE LET j == (i + 1) % length
             plus == fadd(area, fmul(points[i + 1].x, points[j + 1].y))
             minus == fsub(plus, fmul(points[j + 1].x, points[i + 1].y))
         IN  area_loop(points, length, i + 1, minus)

\* Variant: the signed area is returned.
calculate_polygon_area_signed(points, length) ==
    fdiv(area_loop(points, length, 0, Zero), D(2))

calculate_polygon_area(points, length) ==
    fabs(fdiv(area_loop(points, length, 0, Zero), D(2)))

(***************************************************************************)
(* calculate_polygon_perimeter                                             *)
(***************************************************************************)
RECURSIVE perimeter_loop(_, _, _, _)
perimeter_loop(points, length, i, perimeter) ==
    IF ~(i < length) THEN perimeter
    ELSE LET j == (i + 1) % length
             edge == sqrt(fadd(pow2(fsub(points[j + 1].x, points[i + 1].x)),
                               pow2(fsub(points[j + 1].y, points[i + 1].y))))
         IN  perimeter_loop(points, length, i + 1, fadd(perimeter, edge))

calculate_polygon_perimeter(points, length) ==
    perimeter_loop(points, length, 0, Zero)

(***************************************************************************)
(* calculate_bounding_box: the four output slots after the call.           *)
(***************************************************************************)
RECURSIVE bbox_loop(_, _, _, _)
bbox_loop(points, length, i, box) ==
    IF ~(i < length) THEN box
    ELSE LET p == points[i + 1]
         IN  bbox_loop(points, length, i + 1,
                 [minX |-> IF flt(p.x, box.minX) THEN p.x ELSE box.minX,
                  minY |-> IF flt(p.y, box.minY) THEN p.y ELSE box.minY,
                  maxX |-> IF flt(box.maxX, p.x) THEN p.x ELSE box.maxX,
                  maxY |-> IF flt(box.maxY, p.y) THEN p.y ELSE box.maxY])

calculate_bounding_box(points, length) ==
    IF length = 0
    THEN [minX |-> Zero, minY |-> Zero, maxX |-> Zero, maxY |-> Zero]
    ELSE bbox_loop(points, length, 1,
                   [minX |-> points[1].x, minY |-> points[1].y,
                    maxX |-> points[1].x, maxY |-> points[1].y])

(***************************************************************************)
(* do_polygons_intersect: three loops, each returning at the first hit.    *)
(***************************************************************************)
RECURSIVE any_vertex_inside(_, _, _, _, _)
any_vertex_inside(polyA, lenA, polyB, lenB, i) ==
    IF ~(i < lenA) THEN FALSE
    ELSE IF is_point_in_polygon(polyA[i + 1].x, polyA[i + 1].y, polyB, lenB).ret
    THEN TRUE
    ELSE any_vertex_inside(polyA, lenA, polyB, lenB, i + 1)

RECURSIVE any_edges_intersect(_, _, _, _, _, _)
any_edges_intersect(poly1, len1, poly2, len2, i, k) ==
    IF ~(i < len1) THEN FALSE
    ELSE IF ~(k < len2) THEN any_edges_intersect(poly1, len1, poly2, len2, i + 1, 0)
    ELSE LET j == (i + 1) % len1
             l == (k + 1) % len2
         IN  IF calculate_intersection(
                    poly1[i + 1].x, poly1[i + 1].y, poly1[j + 1].x, poly1[j + 1].y,
                    poly2[k + 1].x, poly2[k + 1].y, poly2[l + 1].x, poly2[l + 1].y
                ).ret # 0
             THEN TRUE
             ELSE any_edges_intersect(poly1, len1, poly2, len2, i, k + 1)

\* Variant: the vertices of poly2 are never tested against poly1.
do_polygons_intersect_one_way(poly1, len1, poly2, len2) ==
    IF any_vertex_inside(poly1, len1, poly2, len2, 0) THEN TRUE
    ELSE any_edges_intersect(poly1, len1, poly2, len2, 0, 0)

do_polygons_intersect(poly1, len1, poly2, len2) ==
    IF any_vertex_inside(poly1, len1, poly2, len2, 0) THEN TRUE
    ELSE IF any_vertex_inside(poly2, len2, poly1, len1, 0) THEN TRUE
    ELSE any_edges_intersect(poly1, len1, poly2, len2, 0, 0)

(***************************************************************************)
(* Point buffers in linear memory.  A cell holds one double; addresses are *)
(* cell numbers from 1 and 0 is NULL.  A Point is SizeofPoint consecutive  *)
(* cells, x first.                                                         *)
(***************************************************************************)
MemCells == 6
MaxBufLen == 2
SizeofPoint == 2

Cells == 1..MemCells
NULL == 0

\* A cell is indeterminate until a double is stored in it.
Indeterminate == <<>>
Stored(d) == <<d>>

\* The cells the allocation at base of the given size keeps for itself; a
\* request of size 0 that succeeds still yields an address of its own.
Footprint(base, size) == base..(base + (IF size = 0 THEN 1 ELSE size) - 1)

\* malloc: NULL, or any address whose cells are inside the memory and apart
\* from every live allocation.
malloc(blks, size) ==
    {NULL} \cup
    {a \in Cells :
        /\ Footprint(a, size) \subseteq Cells
        /\ \A b \in blks : Footprint(a, size) \cap Footprint(b.base, b.size) = {}}

free(blks, ptr) == {b \in blks : b.base # ptr}

create_point_array(blks, length) == malloc(blks, length * SizeofPoint)

\* A set_point that takes the index for a cell offset.
set_point_unscaled(m, points, index, x, y) ==
    [m EXCEPT ![points + index] = Stored(x), ![points + index + 1] = Stored(y)]

set_point(m, points, index, x, y) ==
    [m EXCEPT ![points + index * SizeofPoint] = Stored(x),
              ![points + index * SizeofPoint + 1] = Stored(y)]

free_point_array(blks, points) == free(blks, points)

\* points[k] and the sequence points[0 .. length-1] as the functions read them.
LoadPoint(m, points, k) ==
    Pt(m[points + k * SizeofPoint][1], m[points + k * SizeofPoint + 1][1])
LoadPoints(m, points, length) ==
    [k \in 1..length |-> LoadPoint(m, points, k - 1)]

(***************************************************************************)
(* The callers' inputs                                                     *)
(***************************************************************************)
MaxLen == 3

BufCoords == {D(0), D(3)}
BufQueries == {P(1, 1)}

Grid(C) == {P(i, j) : i \in C, j \in C}

\* All point sequences of length 0..n over the point set S.
SeqsUpTo(S, n) == UNION {[1..k -> S] : k \in 0..n}

SegFamilies ==
    { Grid({0, 1, 3}),
      {P(-3, -1), P(0, 0), P(3, 1), P(48, 16)},
      {P(0, 0), P(10, 10), P(0, 10), P(10, 0), P(0, 1), P(10, 1)} }

DistFamilies ==
    { Grid({0, 1, 2, 4}),
      {P(0, 5), P(-3, 0), P(0, 0), P(10, 0)} }

Square == <<P(0, 0), P(4, 0), P(4, 4), P(0, 4)>>

PolyFamilies ==
    { Grid({0, 1, 2}),
      {P(0, 0), P(1, 4), P(8, 1)} }

Polygons ==
    UNION {SeqsUpTo(F, MaxLen) : F \in PolyFamilies} \cup {Square}

QueryPoints == Grid({0, 1, 2}) \cup {P(10, 10)}

UnitSquare == <<P(0, 0), P(1, 0), P(1, 1), P(0, 1)>>
FarSquare == <<P(3, 3), P(4, 3), P(4, 4), P(3, 4)>>

\* Pairs of point sets: polygon A is drawn from the first, B from the second.
InterFamilies ==
    { <<{P(0, 0), P(2, 2)}, {P(0, 2), P(2, 0)}>>,
      <<{P(0, 0), P(3, 0), P(0, 3)}, {P(1, 1), P(3, 3)}>>,
      <<{P(1, 1), P(3, 3)}, {P(0, 0), P(3, 0), P(0, 3)}>>,
      <<{P(0, 0), P(1, 0), P(0, 1)}, {P(2, 0), P(3, 2), P(0, 3)}>>,
      <<{P(0, 0), P(25, 0)}, {P(1, 0), P(24, 1), P(24, 3)}>> }

\* Point sets of the polygons that are tested against themselves.
SelfFamilies ==
    { {P(0, 0), P(2, 0), P(2, 2), P(0, 2)},
      {P(0, 0), P(3, 0), P(0, 3), P(1, 1)} }

SelfPolygons ==
    UNION {SeqsUpTo(F, MaxLen) : F \in SelfFamilies} \cup {UnitSquare}

\* The pairs passed to do_polygons_intersect; a caller may pass one polygon
\* as both arguments.
PolygonPairs ==
    UNION {SeqsUpTo(F[1], MaxLen) \X SeqsUpTo(F[2], MaxLen) : F \in InterFamilies}
    \cup {<<points, points>> : points \in SelfPolygons}
    \cup {<<UnitSquare, FarSquare>>}

(***************************************************************************)
(* State: the linear memory mem, the live allocations blocks, the caller's *)
(* own record shadow of what it wrote, the caller's position pc and the    *)
(* call it made last, with what the call returned.                         *)
(***************************************************************************)
NoCall == [op |-> "none"]

\* No handle is live: the caller's record is the function with no argument.
NoBuffers == [h \in {} |-> <<>>]

Init ==
    /\ mem = [c \in Cells |-> Indeterminate]
    /\ blocks = {}
    /\ shadow = NoBuffers
    /\ pc = "idle"
    /\ call = NoCall

Return ==
    /\ pc = "ret"
    /\ pc' = "idle"
    /\ call' = NoCall
    /\ UNCHANGED <<mem, blocks, shadow>>

CallIntersection ==
    /\ pc = "idle"
    /\ \E F \in SegFamilies : \E p1, p2, p3, p4 \in F :
          call' = [op |-> "calculate_intersection",
                   p1 |-> p1, p2 |-> p2, p3 |-> p3, p4 |-> p4,
                   out |-> calculate_intersection(p1.x, p1.y, p2.x, p2.y,
                                                  p3.x, p3.y, p4.x, p4.y)]
    /\ pc' = "ret"
    /\ UNCHANGED <<mem, blocks, shadow>>

CallDistance ==
    /\ pc = "idle"
    /\ \E F \in DistFamilies : \E p, v, w \in F :
          call' = [op |-> "distance_to_segment", p |-> p, v |-> v, w |-> w,
                   out |-> distance_to_segment(p.x, p.y, v.x, v.y, w.x, w.y)]
    /\ pc' = "ret"
    /\ UNCHANGED <<mem, blocks, shadow>>

\* A polygon call passes a pointer and a length; the length is either the
\* number of points behind the pointer or 0.
CallPointInPolygon ==
    /\ pc = "idle"
    /\ \E points \in Polygons, q \in QueryPoints :
       \E length \in {0, Len(points)} :
          call' = [op |-> "is_point_in_polygon", q |-> q,
                   points |-> points, length |-> length,
                   out |-> is_point_in_polygon(q.x, q.y, points, length)]
    /\ pc' = "ret"
    /\ UNCHANGED <<mem, blocks, shadow>>

CallArea ==
    /\ pc = "idle"
    /\ \E points \in Polygons : \E length \in {0, Len(points)} :
          call' = [op |-> "calculate_polygon_area",
                   points |-> points, length |-> length,
                   out |-> calculate_polygon_area(points, length)]
    /\ pc' = "ret"
    /\ UNCHANGED <<mem, blocks, shadow>>

CallPerimeter ==
    /\ pc = "idle"
    /\ \E points \in Polygons : \E length \in {0, Len(points)} :
          call' = [op |-> "calculate_polygon_perimeter",
                   points |-> points, length |-> length,
                   out |-> calculate_polygon_perimeter(points, length)]
    /\ pc' = "ret"
    /\ UNCHANGED <<mem, blocks, shadow>>

CallBoundingBox ==
    /\ pc = "idle"
    /\ \E points \in Polygons : \E length \in {0, Len(points)} :
          call' = [op |-> "calculate_bounding_box",
                   points |-> points, length |-> length,
                   out |-> calculate_bounding_box(points, length)]
    /\ pc' = "ret"
    /\ UNCHANGED <<mem, blocks, shadow>>

CallPolygonsIntersect ==
    /\ pc = "idle"
    /\ \E pair \in PolygonPairs :
          call' = [op |-> "do_polygons_intersect",
                   poly1 |-> pair[1], len1 |-> Len(pair[1]),
                   poly2 |-> pair[2], len2 |-> Len(pair[2]),
                   out |-> do_polygons_intersect(pair[1], Len(pair[1]),
                                                 pair[2], Len(pair[2]))]
    /\ pc' = "ret"
    /\ UNCHANGED <<mem, blocks, shadow>>

\* The handles the caller holds, and those it has written completely.
Handles == DOMAIN shadow
Written(h) == \A k \in 1..Len(shadow[h]) : shadow[h][k] # <<>>
\* The sequence of points the caller wrote into a completely written buffer.
Logical(h) == [k \in 1..Len(shadow[h]) |-> shadow[h][k][1]]

CreatePointArray ==
    /\ pc = "idle"
    /\ \E length \in 0..MaxBufLen : \E a \in create_point_array(blocks, length) :
          /\ call' = [op |-> "create_point_array", length |-> length, out |-> a]
          /\ IF a = NULL
             THEN UNCHANGED <<mem, blocks, shadow>>
             ELSE /\ blocks' = blocks \cup {[base |-> a, size |-> length * SizeofPoint]}
                  /\ mem' = [c \in Cells |->
                                IF c \in Footprint(a, length * SizeofPoint)
                                THEN Indeterminate ELSE mem[c]]
                  /\ shadow' = [h \in Handles \cup {a} |->
                                   IF h = a THEN [k \in 1..length |-> <<>>]
                                   ELSE shadow[h]]
    /\ pc' = "ret"

\* The caller writes only into a live buffer, at an index below its length.
SetPoint ==
    /\ pc = "idle"
    /\ \E h \in Handles : \E i \in 0..(Len(shadow[h]) - 1) : \E x, y \in BufCoords :
          /\ mem' = set_point(mem, h, i, x, y)
          /\ shadow' = [shadow EXCEPT ![h][i + 1] = <<Pt(x, y)>>]
          /\ call' = [op |-> "set_point", points |-> h, index |-> i,
                      x |-> x, y |-> y]
    /\ pc' = "ret"
    /\ UNCHANGED blocks

\* The caller releases a live buffer, and forgets the handle.
FreePointArray ==
    /\ pc = "idle"
    /\ \E h \in Handles :
          /\ blocks' = free_point_array(blocks, h)
          /\ shadow' = [g \in Handles \ {h} |-> shadow[g]]
          /\ call' = [op |-> "free_point_array", points |-> h]
    /\ pc' = "ret"
    /\ UNCHANGED mem

\* The geometric functions called on buffers the caller has written.
BufPointInPolygon ==
    /\ pc = "idle"
    /\ \E h \in Handles : \E q \in BufQueries :
          /\ Written(h)
          /\ call' = [op |-> "is_point_in_polygon", q |-> q,
                      points |-> h, length |-> Len(shadow[h]),
                      out |-> is_point_in_polygon(q.x, q.y,
                                  LoadPoints(mem, h, Len(shadow[h])),
                                  Len(shadow[h]))]
    /\ pc' = "ret"
    /\ UNCHANGED <<mem, blocks, shadow>>

BufArea ==
    /\ pc = "idle"
    /\ \E h \in Handles :
          /\ Written(h)
          /\ call' = [op |-> "calculate_polygon_area",
                      points |-> h, length |-> Len(shadow[h]),
                      out |-> calculate_polygon_area(
                                  LoadPoints(mem, h, Len(shadow[h])),
                                  Len(shadow[h]))]
    /\ pc' = "ret"
    /\ UNCHANGED <<mem, blocks, shadow>>

BufPerimeter ==
    /\ pc = "idle"
    /\ \E h \in Handles :
          /\ Written(h)
          /\ call' = [op |-> "calculate_polygon_perimeter",
                      points |-> h, length |-> Len(shadow[h]),
                      out |-> calculate_polygon_perimeter(
                                  LoadPoints(mem, h, Len(shadow[h])),
                                  Len(shadow[h]))]
    /\ pc' = "ret"
    /\ UNCHANGED <<mem, blocks, shadow>>

BufBoundingBox ==
    /\ pc = "idle"
    /\ \E h \in Handles :
          /\ Written(h)
          /\ call' = [op |-> "calculate_bounding_box",
                      points |-> h, length |-> Len(shadow[h]),
                      out |-> calculate_bounding_box(
                                  LoadPoints(mem, h, Len(shadow[h])),
                                  Len(shadow[h]))]
    /\ pc' = "ret"
    /\ UNCHANGED <<mem, blocks, shadow>>

BufPolygonsIntersect ==
    /\ pc = "idle"
    /\ \E h1, h2 \in Handles :
          /\ Written(h1) /\ Written(h2)
          /\ call' = [op |-> "do_polygons_intersect",
                      poly1 |-> h1, len1 |-> Len(shadow[h1]),
                      poly2 |-> h2, len2 |-> Len(shadow[h2]),
                      out |-> do_polygons_intersect(
                                  LoadPoints(mem, h1, Len(shadow[h1])),
                                  Len(shadow[h1]),
                                  LoadPoints(mem, h2, Len(shadow[h2])),
                                  Len(shadow[h2]))]
    /\ pc' = "ret"
    /\ UNCHANGED <<mem, blocks, shadow>>

NextBuf ==
    \/ CreatePointArray \/ SetPoint \/ FreePointArray
    \/ BufPointInPolygon \/ BufArea \/ BufPerimeter \/ BufBoundingBox
    \/ BufPolygonsIntersect \/ Return
SpecBuf == Init /\ [][NextBuf]_vars

NextSeg == CallIntersection \/ Return
SpecSeg == Init /\ [][NextSeg]_vars

NextDist == CallDistance \/ Return
SpecDist == Init /\ [][NextDist]_vars

NextPoly == CallPointInPolygon \/ CallArea \/ CallPerimeter \/ CallBoundingBox \/ Return
SpecPoly == Init /\ [][NextPoly]_vars

NextInter == CallPolygonsIntersect \/ Return
SpecInter == Init /\ [][NextInter]_vars

NextGeom ==
    \/ CallPointInPolygon \/ CallArea \/ CallPerimeter \/ CallBoundingBox
    \/ CallPolygonsIntersect \/ Return
SpecGeom == Init /\ [][NextGeom]_vars

(***************************************************************************)
(* Reference geometry in exact rational arithmetic.                        *)
(***************************************************************************)
\* The line through p and q as a*x + b*y = c, and the determinant of two lines.
ExA(p, q) == QSub(q.y.v, p.y.v)
ExB(p, q) == QSub(p.x.v, q.x.v)
ExC(p, q) == QAdd(QMul(ExA(p, q), p.x.v), QMul(ExB(p, q), p.y.v))
ExDet(p1, p2, p3, p4) ==
    QSub(QMul(ExA(p1, p2), ExB(p3, p4)), QMul(ExA(p3, p4), ExB(p1, p2)))
\* The point (ix, iy) lies on the line through p and q.
OnLine(p, q, ix, iy) ==
    QAdd(QMul(ExA(p, q), ix.v), QMul(ExB(p, q), iy.v)) = ExC(p, q)

(***************************************************************************)
(* Claims about calculate_intersection (SpecSeg).                          *)
(***************************************************************************)
IsIntersection == pc = "ret" /\ call.op = "calculate_intersection"

\* The line coefficients, determinant and Cramer solution in double arithmetic.
LineA(p, q) == fsub(q.y, p.y)
LineB(p, q) == fsub(p.x, q.x)
LineC(p, q) == fadd(fmul(LineA(p, q), p.x), fmul(LineB(p, q), p.y))
Det(p1, p2, p3, p4) ==
    fsub(fmul(LineA(p1, p2), LineB(p3, p4)), fmul(LineA(p3, p4), LineB(p1, p2)))
CramerX(p1, p2, p3, p4) ==
    fdiv(fsub(fmul(LineB(p3, p4), LineC(p1, p2)), fmul(LineB(p1, p2), LineC(p3, p4))),
         Det(p1, p2, p3, p4))
CramerY(p1, p2, p3, p4) ==
    fdiv(fsub(fmul(LineA(p1, p2), LineC(p3, p4)), fmul(LineA(p3, p4), LineC(p1, p2))),
         Det(p1, p2, p3, p4))
InSpan(p, q, ix, iy) ==
    /\ fle(fmin(p.x, q.x), ix) /\ fle(ix, fmax(p.x, q.x))
    /\ fle(fmin(p.y, q.y), iy) /\ fle(iy, fmax(p.y, q.y))
SharedEndpoint(p1, p2, p3, p4) == {p1, p2} \cap {p3, p4} # {}

\* The flag is 1 exactly when the determinant is non-zero and the Cramer
\* solution is within both segments' inclusive coordinate ranges.
FlagIffInRange ==
    LET p1 == call.p1  p2 == call.p2  p3 == call.p3  p4 == call.p4
    IN  (call.out.ret = 1) <=>
            /\ ~feq(Det(p1, p2, p3, p4), Zero)
            /\ InSpan(p1, p2, CramerX(p1, p2, p3, p4), CramerY(p1, p2, p3, p4))
            /\ InSpan(p3, p4, CramerX(p1, p2, p3, p4), CramerY(p1, p2, p3, p4))
SlotsHoldSolution ==
    call.out.ret = 1 =>
        /\ call.out.ix = CramerX(call.p1, call.p2, call.p3, call.p4)
        /\ call.out.iy = CramerY(call.p1, call.p2, call.p3, call.p4)
CrossExample ==
    (call.p1 = P(0, 0) /\ call.p2 = P(10, 10) /\ call.p3 = P(0, 10) /\ call.p4 = P(10, 0))
        => call.out.ret = 1 /\ call.out.ix.v = QInt(5) /\ call.out.iy.v = QInt(5)

\* C2 as stated: the flag is 1 exactly when the determinant is non-zero and
\* the Cramer solution is within both segments' inclusive ranges; on 1 the
\* slots hold that solution, which lies on both supporting lines ((5,5) in
\* the example); non-parallel segments sharing an end point return 1.
C2_AsStated ==
    IsIntersection =>
        /\ FlagIffInRange
        /\ SlotsHoldSolution
        /\ CrossExample
        /\ call.out.ret = 1 =>
              /\ OnLine(call.p1, call.p2, call.out.ix, call.out.iy)
              /\ OnLine(call.p3, call.p4, call.out.ix, call.out.iy)
        /\ (/\ SharedEndpoint(call.p1, call.p2, call.p3, call.p4)
            /\ ExDet(call.p1, call.p2, call.p3, call.p4) # QInt(0))
              => call.out.ret = 1

\* C2 amended: the flag is 1 exactly when the computed determinant is
\* non-zero and the computed Cramer solution is within both segments'
\* inclusive ranges, and on 1 the slots hold that computed solution ((5,5)
\* in the example); when no operation of the computation rounds, the
\* solution lies on both supporting lines and non-parallel segments that
\* share an end point return 1.
C2_Intersection ==
    IsIntersection =>
        /\ FlagIffInRange
        /\ SlotsHoldSolution
        /\ CrossExample
        /\ (call.out.ret = 1 /\ call.out.ix.x /\ call.out.iy.x) =>
              /\ OnLine(call.p1, call.p2, call.out.ix, call.out.iy)
              /\ OnLine(call.p3, call.p4, call.out.ix, call.out.iy)
        /\ (/\ SharedEndpoint(call.p1, call.p2, call.p3, call.p4)
            /\ ExDet(call.p1, call.p2, call.p3, call.p4) # QInt(0)
            /\ Det(call.p1, call.p2, call.p3, call.p4).x
            /\ CramerX(call.p1, call.p2, call.p3, call.p4).x
            /\ CramerY(call.p1, call.p2, call.p3, call.p4).x)
              => call.out.ret = 1

\* Two non-parallel segments that touch only at a shared end point, computed
\* without rounding, are reported as intersecting at that point.
C2_Witness ==
    /\ IsIntersection
    /\ call.p2 = call.p3 /\ call.p1 # call.p4 /\ call.p1 # call.p2 /\ call.p3 # call.p4
    /\ ExDet(call.p1, call.p2, call.p3, call.p4) # QInt(0)
    /\ call.out.ret = 1
    /\ call.out.ix.x /\ call.out.iy.x
    /\ call.out.ix = call.p2.x /\ call.out.iy = call.p2.y

ParallelExample ==
    (call.p1 = P(0, 0) /\ call.p2 = P(10, 0) /\ call.p3 = P(0, 1) /\ call.p4 = P(10, 1))
        => call.out.ret = 0

\* C3 as stated: the flag is 0 whenever the determinant is 0: for every pair
\* of parallel or collinear segments and whenever a segment has zero length.
C3_AsStated ==
    IsIntersection =>
        /\ feq(call.out.det, Zero) => call.out.ret = 0
        /\ ExDet(call.p1, call.p2, call.p3, call.p4) = QInt(0) => call.out.ret = 0
        /\ ParallelExample

\* C3 amended: the flag is 0 whenever the computed determinant is 0, which
\* is the case whenever a segment has zero length, and for parallel or
\* collinear segments whenever the determinant is computed without rounding.
C3_ZeroDeterminant ==
    IsIntersection =>
        /\ feq(call.out.det, Zero) =>
              call.out.ret = 0 /\ call.out.ix = Unset /\ call.out.iy = Unset
        /\ (call.p1 = call.p2 \/ call.p3 = call.p4) =>
              feq(call.out.det, Zero) /\ call.out.ret = 0
        /\ (ExDet(call.p1, call.p2, call.p3, call.p4) = QInt(0) /\ call.out.det.x) =>
              feq(call.out.det, Zero) /\ call.out.ret = 0
        /\ ParallelExample

\* Two collinear segments of non-zero length that share an end point.
C3_Witness ==
    /\ IsIntersection
    /\ call.p1 # call.p2 /\ call.p3 # call.p4 /\ call.p2 = call.p3
    /\ ExDet(call.p1, call.p2, call.p3, call.p4) = QInt(0)
    /\ call.out.det.x
    /\ call.out.ret = 0

(***************************************************************************)
(* Claims about distance_to_segment (SpecDist).                            *)
(***************************************************************************)
IsDistance == pc = "ret" /\ call.op = "distance_to_segment"

\* |a - b|, |W - V|^2 and the projection parameter t in double arithmetic.
Euclid(a, b) == sqrt(fadd(pow2(fsub(a.x, b.x)), pow2(fsub(a.y, b.y))))
SegLen2(v, w) == fadd(pow2(fsub(v.x, w.x)), pow2(fsub(v.y, w.y)))
ProjT(p, v, w) ==
    fdiv(fadd(fmul(fsub(p.x, v.x), fsub(w.x, v.x)),
              fmul(fsub(p.y, v.y), fsub(w.y, v.y))), SegLen2(v, w))
ProjPoint(p, v, w) ==
    Pt(fadd(v.x, fmul(ProjT(p, v, w), fsub(w.x, v.x))),
       fadd(v.y, fmul(ProjT(p, v, w), fsub(w.y, v.y))))

\* Exact: the squared distance from p to the point V + s(W - V), s rational,
\* and the exact projection parameter.
ExDist2At(p, v, w, s) ==
    LET qx == QAdd(v.x.v, QMul(s, QSub(w.x.v, v.x.v)))
        qy == QAdd(v.y.v, QMul(s, QSub(w.y.v, v.y.v)))
        dx == QSub(p.x.v, qx)
        dy == QSub(p.y.v, qy)
    IN  QAdd(QMul(dx, dx), QMul(dy, dy))
ExT(p, v, w) ==
    QDiv(QAdd(QMul(QSub(p.x.v, v.x.v), QSub(w.x.v, v.x.v)),
              QMul(QSub(p.y.v, v.y.v), QSub(w.y.v, v.y.v))),
         QAdd(QMul(QSub(w.x.v, v.x.v), QSub(w.x.v, v.x.v)),
              QMul(QSub(w.y.v, v.y.v), QSub(w.y.v, v.y.v))))
\* d is the least distance from p to the closed segment: its square is
\* attained at a point of the segment and no sampled point is nearer.
IsMinDistance(d, p, v, w) ==
    LET d2 == QMul(d.v, d.v)
        inner == IF v = w THEN {}
                 ELSE IF QLe(QInt(0), ExT(p, v, w)) /\ QLe(ExT(p, v, w), QInt(1))
                      THEN {ExT(p, v, w)} ELSE {}
    IN  /\ QLe(QInt(0), d.v)
        /\ \E s \in {QInt(0), QInt(1)} \cup inner : ExDist2At(p, v, w, s) = d2
        /\ \A k \in 0..SampleDiv : QLe(d2, ExDist2At(p, v, w, Rat(k, SampleDiv)))

\* The result is selected by case, in the order of the code.
DistanceByCase ==
    LET p == call.p  v == call.v  w == call.w
    IN  IF feq(SegLen2(v, w), Zero)
        THEN call.out.ret = Euclid(p, v) /\ ~call.out.divided
        ELSE IF flt(ProjT(p, v, w), Zero) THEN call.out.ret = Euclid(p, v)
        ELSE IF flt(One, ProjT(p, v, w)) THEN call.out.ret = Euclid(p, w)
        ELSE call.out.ret = Euclid(p, ProjPoint(p, v, w))
DistanceExamples ==
    /\ (call.p = P(0, 5) /\ call.v = P(0, 0) /\ call.w = P(10, 0))
          => call.out.ret.v = QInt(5)
    /\ (call.p = P(-3, 0) /\ call.v = P(0, 0) /\ call.w = P(10, 0))
          => call.out.ret.v = QInt(3)

\* C9 as stated: the result is selected by case (zero-length segment first,
\* without dividing; then t < 0, t > 1, else the projection), and it is the
\* minimum distance from P to the closed segment (5 and 3 in the examples).
C9_AsStated ==
    IsDistance =>
        /\ DistanceByCase
        /\ DistanceExamples
        /\ IsMinDistance(call.out.ret, call.p, call.v, call.w)

\* C9 amended: the result is selected by case on the computed |W-V|^2 and t
\* as stated (5 and 3 in the examples); it is the minimum distance from P to
\* the closed segment whenever no operation of the computation rounds.
C9_Distance ==
    IsDistance =>
        /\ DistanceByCase
        /\ DistanceExamples
        /\ call.out.x => IsMinDistance(call.out.ret, call.p, call.v, call.w)

\* P projects strictly inside the segment and the distance is exact and positive.
C9_Witness ==
    /\ IsDistance
    /\ call.out.branch = "proj" /\ call.out.x
    /\ flt(Zero, ProjT(call.p, call.v, call.w)) /\ flt(ProjT(call.p, call.v, call.w), One)
    /\ flt(Zero, call.out.ret)

(***************************************************************************)
(* Claims about is_point_in_polygon (SpecPoly).                            *)
(***************************************************************************)
IsPointInPolygon == pc = "ret" /\ call.op = "is_point_in_polygon"

\* The vertex before i, cyclically.
Prev(i, length) == (i - 1 + length) % length
\* The edge (vertex i, vertex i-1) satisfies the crossing condition.
EdgeCrosses(q, points, length, i) ==
    LET xi == points[i + 1].x
        yi == points[i + 1].y
        xj == points[Prev(i, length) + 1].x
        yj == points[Prev(i, length) + 1].y
    IN  /\ flt(q.y, yi) # flt(q.y, yj)
        /\ flt(q.x, fadd(fdiv(fmul(fsub(xj, xi), fsub(q.y, yi)), fsub(yj, yi)), xi))
Odd(n) == n % 2 = 1

\* C5: the result is true iff the number of edges (vertex i, vertex i-1)
\* satisfying the crossing condition is odd; the quotient is evaluated only
\* at edges whose end points differ in y; for the square, (2,2) is inside and
\* (10,10) is not.
C5_PointInPolygon ==
    IsPointInPolygon =>
        /\ call.out.ret =
              Odd(Cardinality({i \in 0..(call.length - 1) :
                                  EdgeCrosses(call.q, call.points, call.length, i)}))
        /\ \A i \in call.out.divs :
              /\ i \in 0..(call.length - 1)
              /\ ~feq(call.points[i + 1].y,
                      call.points[Prev(i, call.length) + 1].y)
        /\ (call.points = Square /\ call.length = 4 /\ call.q = P(2, 2))
              => call.out.ret
        /\ (call.points = Square /\ call.length = 4 /\ call.q = P(10, 10))
              => ~call.out.ret

\* A point strictly inside a triangle, decided by one crossing.
C5_Witness ==
    /\ IsPointInPolygon
    /\ call.length = 3
    /\ call.out.ret
    /\ Cardinality(call.out.divs) = 2

(***************************************************************************)
(* Claims about calculate_polygon_area (SpecPoly).                         *)
(***************************************************************************)
IsArea == pc = "ret" /\ call.op = "calculate_polygon_area"

\* The first n points in reverse order.
Reversed(points, n) == [i \in 1..n |-> points[n + 1 - i]]
\* The exact shoelace sum over the first n points, from index i on.
RECURSIVE ExShoelace(_, _, _)
ExShoelace(points, n, i) ==
    IF i >= n THEN QInt(0)
    ELSE LET j == (i + 1) % n
         IN  QAdd(QSub(QMul(points[i + 1].x.v, points[j + 1].y.v),
                       QMul(points[j + 1].x.v, points[i + 1].y.v)),
                  ExShoelace(points, n, i + 1))
ExArea(points, n) == QDiv(QAbs(ExShoelace(points, n, 0)), QInt(2))

\* C8 as stated: the area is |sum of (x_i*y_{i+1} - x_{i+1}*y_i)| / 2, so it
\* is >= 0, the same for the reversed vertex sequence, 0 for every polygon
\* of length 1 or 2, and 16 for the square.
C8_AsStated ==
    IsArea =>
        /\ call.out.v = ExArea(call.points, call.length)
        /\ QLe(QInt(0), call.out.v)
        /\ feq(calculate_polygon_area(Reversed(call.points, call.length), call.length),
               call.out)
        /\ call.length \in {1, 2} => call.out.v = QInt(0)
        /\ (call.points = Square /\ call.length = 4) => call.out.v = QInt(16)

\* C8 amended: the area is >= 0 for every polygon, 0 for every polygon of
\* length 1 and 16 for the square; whenever the accumulation does not round
\* it is |sum of (x_i*y_{i+1} - x_{i+1}*y_i)| / 2, hence 0 for length 2 and
\* the same as for the reversed sequence when that one does not round either.
C8_Area ==
    IsArea =>
        /\ QLe(QInt(0), call.out.v)
        /\ call.length = 1 => call.out.v = QInt(0)
        /\ (call.points = Square /\ call.length = 4) => call.out.v = QInt(16)
        /\ call.out.x =>
              /\ call.out.v = ExArea(call.points, call.length)
              /\ call.length = 2 => call.out.v = QInt(0)
              /\ LET rev == calculate_polygon_area(
                                Reversed(call.points, call.length), call.length)
                 IN  rev.x => feq(rev, call.out)

\* A clockwise triangle of non-zero area, computed without rounding.
C8_Witness ==
    /\ IsArea
    /\ call.length = 3
    /\ call.out.x
    /\ QLt(ExShoelace(call.points, call.length, 0), QInt(0))
    /\ QLt(QInt(0), call.out.v)

(***************************************************************************)
(* Zero-vertex polygons (SpecGeom).                                        *)
(***************************************************************************)
\* C4: with length 0, the area is 0, the perimeter is 0, the bounding box is
\* (0,0,0,0), no point is inside, and two polygons do not intersect when
\* either has length 0.
C4_ZeroLength ==
    pc = "ret" =>
        /\ (call.op = "calculate_polygon_area" /\ call.length = 0)
              => call.out = Zero
        /\ (call.op = "calculate_polygon_perimeter" /\ call.length = 0)
              => call.out = Zero
        /\ (call.op = "calculate_bounding_box" /\ call.length = 0)
              => call.out = [minX |-> Zero, minY |-> Zero, maxX |-> Zero, maxY |-> Zero]
        /\ (call.op = "is_point_in_polygon" /\ call.length = 0)
              => ~call.out.ret /\ call.out.divs = {}
        /\ (call.op = "do_polygons_intersect" /\ (call.len1 = 0 \/ call.len2 = 0))
              => call.out = FALSE

\* A triangle tested against a zero-vertex polygon.
C4_Witness ==
    /\ pc = "ret"
    /\ call.op = "do_polygons_intersect"
    /\ call.len1 = 3 /\ call.len2 = 0
    /\ call.out = FALSE

(***************************************************************************)
(* Claims about do_polygons_intersect (SpecInter).                         *)
(***************************************************************************)
IsPolygonsIntersect == pc = "ret" /\ call.op = "do_polygons_intersect"

\* Vertex i of polyA is classified inside polyB.
VertexInside(polyA, i, polyB, lenB) ==
    is_point_in_polygon(polyA[i + 1].x, polyA[i + 1].y, polyB, lenB)
\* calculate_intersection on edge i of poly1 and edge k of poly2.
EdgePair(poly1, len1, i, poly2, len2, k) ==
    LET j == (i + 1) % len1
        l == (k + 1) % len2
    IN  calculate_intersection(
            poly1[i + 1].x, poly1[i + 1].y, poly1[j + 1].x, poly1[j + 1].y,
            poly2[k + 1].x, poly2[k + 1].y, poly2[l + 1].x, poly2[l + 1].y)
SomeVertexOfAInB ==
    \E i \in 0..(call.len1 - 1) : VertexInside(call.poly1, i, call.poly2, call.len2).ret
SomeVertexOfBInA ==
    \E k \in 0..(call.len2 - 1) : VertexInside(call.poly2, k, call.poly1, call.len1).ret
SomeEdgePair ==
    \E i \in 0..(call.len1 - 1) : \E k \in 0..(call.len2 - 1) :
        EdgePair(call.poly1, call.len1, i, call.poly2, call.len2, k).ret = 1

\* C1: the result is true iff some vertex of A is classified inside B, or
\* some vertex of B inside A, or calculate_intersection returns 1 for some
\* edge of A paired with some edge of B.
C1_ThreeStageOr ==
    IsPolygonsIntersect =>
        (call.out <=> (SomeVertexOfAInB \/ SomeVertexOfBInA \/ SomeEdgePair))

\* Only a vertex of B inside A makes the two polygons intersect.
C1_Witness ==
    /\ IsPolygonsIntersect
    /\ call.out
    /\ ~SomeVertexOfAInB /\ SomeVertexOfBInA /\ ~SomeEdgePair

\* Edges i and i+1 of the polygon are not parallel and their intersection
\* is computed without rounding.
CornerComputedExactly(points, n, i) ==
    LET a == points[i + 1]
        b == points[((i + 1) % n) + 1]
        c == points[((i + 2) % n) + 1]
    IN  /\ ExDet(a, b, b, c) # QInt(0)
        /\ Det(a, b, b, c).x
        /\ CramerX(a, b, b, c).x
        /\ CramerY(a, b, b, c).x

\* C6: a polygon with at least 3 vertices, two consecutive edges of which
\* are not parallel and meet in exact arithmetic, intersects itself; so do
\* two identical unit squares.
C6_SelfIntersect ==
    IsPolygonsIntersect =>
        /\ (/\ call.poly1 = call.poly2 /\ call.len1 = call.len2
            /\ call.len1 >= 3
            /\ \E i \in 0..(call.len1 - 1) :
                   CornerComputedExactly(call.poly1, call.len1, i))
              => call.out
        /\ (call.poly1 = UnitSquare /\ call.poly2 = UnitSquare
            /\ call.len1 = 4 /\ call.len2 = 4) => call.out

\* A triangle against itself: no vertex is classified inside, an edge pair
\* meeting at a corner decides.
C6_Witness ==
    /\ IsPolygonsIntersect
    /\ call.poly1 = call.poly2 /\ call.len1 = 3 /\ call.len2 = 3
    /\ \E i \in 0..2 : CornerComputedExactly(call.poly1, 3, i)
    /\ ~SomeVertexOfAInB /\ ~SomeVertexOfBInA
    /\ call.out

\* The bounding boxes of the two polygons, as calculate_bounding_box gives them.
BoxA == calculate_bounding_box(call.poly1, call.len1)
BoxB == calculate_bounding_box(call.poly2, call.len2)
SeparatedX == flt(BoxA.maxX, BoxB.minX) \/ flt(BoxB.maxX, BoxA.minX)
SeparatedY == flt(BoxA.maxY, BoxB.minY) \/ flt(BoxB.maxY, BoxA.minY)
\* No abscissa of any ray-casting test of the call is rounded.
RayCastsExact ==
    /\ \A i \in 0..(call.len1 - 1) : VertexInside(call.poly1, i, call.poly2, call.len2).x
    /\ \A k \in 0..(call.len2 - 1) : VertexInside(call.poly2, k, call.poly1, call.len1).x
NothingFound ==
    /\ ~call.out
    /\ ~SomeVertexOfAInB /\ ~SomeVertexOfBInA

\* C7 as stated: two polygons of length >= 1 whose bounding boxes are
\* strictly separated on the x axis or on the y axis do not intersect: no
\* vertex is classified inside the other polygon and no edge pair is accepted.
C7_AsStated ==
    (IsPolygonsIntersect /\ call.len1 >= 1 /\ call.len2 >= 1
        /\ (SeparatedX \/ SeparatedY))
    => NothingFound /\ ~SomeEdgePair

\* C7 amended: with bounding boxes strictly separated on an axis no edge pair
\* is accepted; no vertex is classified inside and the result is false when
\* the separation is on the y axis, and when it is on the x axis provided no
\* crossing abscissa of the ray-casting tests is rounded.
C7_SeparatedBoxes ==
    (IsPolygonsIntersect /\ call.len1 >= 1 /\ call.len2 >= 1
        /\ (SeparatedX \/ SeparatedY))
    => /\ ~SomeEdgePair
       /\ SeparatedY => NothingFound
       /\ (SeparatedX /\ RayCastsExact) => NothingFound

\* Two triangles side by side: separated on x only, with rays that cross
\* edges of the other polygon.
C7_Witness ==
    /\ IsPolygonsIntersect
    /\ call.len1 = 3 /\ call.len2 = 3
    /\ SeparatedX /\ ~SeparatedY /\ RayCastsExact
    /\ \E i \in 0..2 : VertexInside(call.poly1, i, call.poly2, call.len2).divs # {}
    /\ ~call.out

(***************************************************************************)
(* Claims about the buffer helpers (SpecBuf).                              *)
(***************************************************************************)
GeometricOps ==
    {"is_point_in_polygon", "calculate_polygon_area",
     "calculate_polygon_perimeter", "calculate_bounding_box",
     "do_polygons_intersect"}

\* The cells of point k of the buffer h in m, and of every point of every
\* buffer the caller holds.
PointAt(m, h, k) == <<m[h + k * SizeofPoint], m[h + k * SizeofPoint + 1]>>
PointsOfBuffers(m) ==
    [h \in Handles |-> [k \in 1..Len(shadow[h]) |-> PointAt(m, h, k - 1)]]

\* A set_point step changes point index of the buffer points and no other
\* point of any buffer.
SetPointFrame ==
    (pc' = "ret" /\ call'.op = "set_point")
    => /\ PointAt(mem', call'.points, call'.index) = <<<<call'.x>>, <<call'.y>>>>
       /\ \A h \in Handles : \A k \in 0..(Len(shadow[h]) - 1) :
             (h # call'.points \/ k # call'.index)
             => PointAt(mem', h, k) = PointAt(mem, h, k)
       /\ blocks' = blocks

\* A geometric call changes no point of a buffer and releases nothing.
GeometricFrame ==
    (pc' = "ret" /\ call'.op \in GeometricOps)
    => /\ PointsOfBuffers(mem') = PointsOfBuffers(mem)
       /\ blocks' = blocks

\* Only free_point_array releases, and it releases the buffer it is given.
OnlyFreeReleases ==
    (\E b \in blocks : b \notin blocks')
    => /\ pc' = "ret" /\ call'.op = "free_point_array"
       /\ \A b \in blocks : b \notin blocks' <=> b.base = call'.points

\* What the function called returns on the point sequence the caller wrote.
OnWritten ==
    CASE call.op = "is_point_in_polygon" ->
           is_point_in_polygon(call.q.x, call.q.y, Logical(call.points), call.length)
      [] call.op = "calculate_polygon_area" ->
           calculate_polygon_area(Logical(call.points), call.length)
      [] call.op = "calculate_polygon_perimeter" ->
           calculate_polygon_perimeter(Logical(call.points), call.length)
      [] call.op = "calculate_bounding_box" ->
           calculate_bounding_box(Logical(call.points), call.length)
      [] call.op = "do_polygons_intersect" ->
           do_polygons_intersect(Logical(call.poly1), call.len1,
                                 Logical(call.poly2), call.len2)

RoundTrip ==
    (pc = "ret" /\ call.op \in GeometricOps) => call.out = OnWritten

\* C10: for a caller that writes only into live buffers at indices below
\* their length, set_point changes exactly the point it names, no geometric
\* function changes a point or releases a buffer, only free_point_array
\* releases, and a geometric function called on a completely written buffer
\* returns what it returns on the sequence of points written.
C10_BufferContract ==
    /\ [][SetPointFrame /\ GeometricFrame /\ OnlyFreeReleases]_vars
    /\ []RoundTrip

\* A perimeter is taken of a written two-point buffer while a second written
\* buffer is live next to it.
C10_Witness ==
    /\ pc = "ret" /\ call.op = "calculate_polygon_perimeter"
    /\ call.length = 2
    /\ shadow[call.points][1] # shadow[call.points][2]
    /\ Cardinality(Handles) = 2
    /\ \A h \in Handles : Len(shadow[h]) >= 1 /\ Written(h)

====
